---- MODULE Spec2Model ----
(***************************************************************************)
(* PIOc_openfile_retry (src/clib/pioc_support.c) as a state machine over   *)
(* the processes of one I/O system.  Every process of the primary          *)
(* communicator (my_comm) makes the same collective call; the calls of one *)
(* process follow each other, and a new collective call starts when every  *)
(* process has returned from the previous one.                             *)
(*                                                                         *)
(* Environment (not part of the repository):                               *)
(*  - the backend open calls (nc_open, nc_open_par, ncmpi_open) return any  *)
(*    status of OpenResults, independently on each process that calls;     *)
(*  - MPI_Bcast on my_comm: the k-th broadcast a process issues in a call  *)
(*    pairs with the k-th value the root issued; a receiver blocks until   *)
(*    the root has issued it; the return code of every MPI call is an      *)
(*    input of the process that makes it (a transport failure leaves the   *)
(*    receive buffer unchanged).                                           *)
(***************************************************************************)
EXTENDS Integers, Sequences, FiniteSets, TLC

\* ------------------------------------------------------------------ bounds
MaxCalls == 2      \* collective open calls per behaviour
MaxFaults == 1     \* injected local failures (MPI return codes, malloc) per behaviour
MaxDecomps == 1    \* decomposition descriptors created on a process
MaxTypes == 2      \* entries of a descriptor's rtype and stype arrays
MaxRegions == 2    \* nodes of a descriptor's region list
MaxPes == 2        \* size of the group that writes or reads a map file
MaxMapLen == 1     \* length of a process's map
MaxNameLen == 2    \* length of the filename of an open
MaxNdims == 2      \* dimension count of a region

\* ------------------------------------------------------- program constants
PIO_NOERR == 0
NC_EINVAL == -36
PIO_EINVAL == -36
NC_ENOTNC == -51
PIO_EBADID == -33
PIO_ENOMEM == -61
PIO_EIO == -68
MPI_SUCCESS == 0

PIO_IOTYPE_PNETCDF == 1
PIO_IOTYPE_NETCDF == 2
PIO_IOTYPE_NETCDF4C == 3
PIO_IOTYPE_NETCDF4P == 4

PIO_WRITE == 1
PIO_REARR_SUBSET == 2
versno == 2001
NC_NETCDF4 == 4096
NC_MPIIO == 8192

PIO_INTERNAL_ERROR == "internal"
PIO_BCAST_ERROR == "bcast"
PIO_RETURN_ERROR == "return"
ErrorHandlers == {PIO_INTERNAL_ERROR, PIO_BCAST_ERROR, PIO_RETURN_ERROR}

\* ----------------------------------------------------- the I/O systems
\* Ranks of my_comm.
Procs == {0, 1, 2}

\* iosystem_desc_t of the three defined contexts: 1 is a direct-mode context
\* whose I/O tasks are ranks 0 and 1; 2 and 3 are asynchronous contexts with
\* disjoint compute and I/O groups.  ioprocs lists the I/O group by io_rank.
IoSystems ==
  [i \in {1, 2, 3} |->
     CASE i = 1 -> [async_interface |-> FALSE, ioprocs |-> <<0, 1>>,
                    ioroot |-> 0, comproot |-> 0]
       [] i = 2 -> [async_interface |-> TRUE, ioprocs |-> <<0, 1>>,
                    ioroot |-> 0, comproot |-> 2]
       [] i = 3 -> [async_interface |-> TRUE, ioprocs |-> <<0>>,
                    ioroot |-> 0, comproot |-> 1]]

IoSysIds == DOMAIN IoSystems

\* pio_get_iosystem_from_id: the context of an id, or none.
pio_get_iosystem_from_id(id) == IF id \in IoSysIds THEN <<IoSystems[id]>> ELSE <<>>

Range(s) == {s[i] : i \in DOMAIN s}

ioproc(ios, p) == p \in Range(ios.ioprocs)
\* io_rank: position in the I/O group, -1 on a process outside it.
io_rank(ios, p) ==
  IF ioproc(ios, p) THEN (CHOOSE k \in DOMAIN ios.ioprocs : ios.ioprocs[k] = p) - 1 ELSE -1
compmaster(ios, p) == p = ios.comproot

\* Bitwise or of a mode with a single-bit flag.
BitOr(m, flag) == IF (m \div flag) % 2 = 1 THEN m ELSE m + flag
HasBit(m, flag) == (m \div flag) % 2 = 1

\* Statuses a backend open (or ncmpi_buffer_attach) may return: success, the
\* two the downgrade looks for, and a host errno (2, no such file).
OpenResults == {PIO_NOERR, NC_ENOTNC, NC_EINVAL, 2}

\* A non-zero MPI return code.
MpiErrors == {16}

NoFile == [allocated |-> FALSE]

\* A process outside a map call; the outputs are the caller's variables behind
\* ndims, gdims, fmaplen and map (-1 and <<>> stand for "not written").
NoMapProc == [pc |-> "idle", i |-> 0, fpos |-> 1, rnpes |-> 0, ret |-> PIO_NOERR,
              tdims |-> <<>>, maplen |-> 0, opened |-> TRUE,
              ndims |-> -1, gdims |-> <<>>, fmaplen |-> -1, map |-> <<>>]
NoId == -1

\* No region call yet.
NoRgOp == [op |-> "none", ndims |-> 0, ret |-> 0, before |-> {}, obtained |-> {},
           released |-> <<>>, staleRead |-> FALSE, badFree |-> FALSE]

VARIABLES
  error_handler,   \* ios->error_handler of each context
  pio_next_ncid,   \* per process: the process-wide id counter
  pio_file_list,   \* per process: the open-file registry (sequence of file_desc_t)
  ncids,           \* per process: the caller's variable behind ncidp
  iotypes,         \* per process: the caller's variable behind iotype
  call,            \* arguments of the collective call in progress
  ncalls,          \* number of collective calls started
  pc,              \* per process: position in PIOc_openfile_retry
  file,            \* per process: the file_desc_t allocated by this call
  ierr,            \* per process: local ierr
  mpierr,          \* per process: local mpierr
  ret,             \* per process: status returned by the call
  pend,            \* per process: status handed to a pending check_netcdf broadcast
  sent,            \* per process: dispatch steps issued (msg send, parameter bcasts)
  bpos,            \* per process: broadcasts issued on my_comm in this call
  bcastLog,        \* values the roots have broadcast on my_comm in this call
  hist,            \* per process: what happened in this call (for the properties)
  pre,             \* per process: counter, caller id and registry at call entry
  faults           \* failures injected so far

\* State of a collective check_netcdf call made on its own.
VARIABLES
  cnCall,          \* the file's context and type in the call in progress
  cnProc,          \* per process: position, status passed, status held, status returned
  cnLog            \* values ioroot has broadcast on my_comm in this call

\* State of one process's decomposition descriptors.
VARIABLES
  pio_iodesc_list, \* the decomposition registry (sequence of io_desc_t)
  heap,            \* resources allocated and not released
  badFree,         \* a release hit something not allocated (double free)
  pio_next_ioid,   \* the id the next descriptor gets
  fdOp             \* the last create or destroy call and what it found

fdVars == <<pio_iodesc_list, heap, badFree, pio_next_ioid, fdOp>>

\* State of a collective PIOc_writemap or PIOc_readmap call.
VARIABLES
  mapCall,         \* the call in progress: operation, group size, arguments
  mapFile,         \* the map file: the numbers written to it, in order
  mapProc,         \* per process: position, loop index, file position, outputs
  mapNet,          \* point-to-point messages sent and not yet received
  mapLog           \* gather contributions (write) or root broadcasts (read)

mapVars == <<mapCall, mapFile, mapProc, mapNet, mapLog>>

\* State of the region arena of one process.
VARIABLES
  rgArena,         \* buffers obtained from bget and not released
  rgMem,           \* contents of the buffers of the arena
  rgTop,           \* head of the caller's region list (0 is NULL)
  rgRet,           \* region returned by alloc_region and not yet linked
  rgOp,            \* the last alloc_region or free_region_list call
  rgFaults         \* allocation failures so far

rgVars == <<rgArena, rgMem, rgTop, rgRet, rgOp, rgFaults>>

vars == <<error_handler, pio_next_ncid, pio_file_list, ncids, iotypes, call, ncalls, pc,
          file, ierr, mpierr, ret, pend, sent, bpos, bcastLog, hist, pre, faults,
          cnCall, cnProc, cnLog, pio_iodesc_list, heap, badFree, pio_next_ioid, fdOp,
          mapCall, mapFile, mapProc, mapNet, mapLog,
          rgArena, rgMem, rgTop, rgRet, rgOp, rgFaults>>

callerVars == <<pio_next_ncid, pio_file_list, ncids>>

cnVars == <<cnCall, cnProc, cnLog>>

\* Variables PIOc_openfile_retry and PIOc_closefile do not touch.
restVars == <<cnVars, fdVars, mapVars, rgVars>>

\* Variables of the open other than the handling mode and the fault budget.
openVars == <<pio_next_ncid, pio_file_list, ncids, iotypes, call, ncalls, pc, file, ierr,
              mpierr, ret, pend, sent, bpos, bcastLog, hist, pre>>

\* opens: backend opens made; first, second: their statuses; native: ierr after
\* the switch on the type; outcome: ierr after the retry block; opened: the
\* process is past lines 803-876; tfail: the call went through check_mpi;
\* nomem: the allocation of the file record failed; reached: the process made
\* the outcome broadcast of line 881; gotIerr, gotMode: the outcome and mode
\* broadcasts returned success; rootIerr: the outcome received; linkedAtWrite:
\* the registry held the file when its id was written to *ncidp; dfail: an MPI
\* call of the dispatch (lines 783-793) failed on this process; sfail: its
\* status broadcast of line 797 failed.
NoHist == [opens |-> 0, first |-> PIO_NOERR, native |-> PIO_NOERR, second |-> PIO_NOERR,
           outcome |-> PIO_NOERR, opened |-> FALSE,
           downgraded |-> FALSE, reopened |-> FALSE, tfail |-> FALSE, nomem |-> FALSE,
           reached |-> FALSE, gotIerr |-> FALSE, gotMode |-> FALSE, rootIerr |-> PIO_NOERR,
           linkedAtWrite |-> FALSE, dfail |-> FALSE, sfail |-> FALSE]

\* filename: the bytes of the name before its terminator; bigEndian: the byte
\* order of the build.
NoCall == [iosysid |-> 0, iotype |-> 0, mode |-> 0, retry |-> FALSE, nullarg |-> "none",
           filename |-> <<>>, bigEndian |-> FALSE]

Init ==
  /\ error_handler = [i \in IoSysIds |-> PIO_INTERNAL_ERROR]
  /\ pio_next_ncid = [p \in Procs |-> 16]   \* the counter starts at 16
  /\ pio_file_list = [p \in Procs |-> <<>>]
  /\ ncids = [p \in Procs |-> NoId]
  /\ iotypes = [p \in Procs |-> 0]
  /\ call = NoCall
  /\ ncalls = 0
  /\ pc = [p \in Procs |-> "idle"]
  /\ file = [p \in Procs |-> NoFile]
  /\ ierr = [p \in Procs |-> PIO_NOERR]
  /\ mpierr = [p \in Procs |-> MPI_SUCCESS]
  /\ ret = [p \in Procs |-> PIO_NOERR]
  /\ pend = [p \in Procs |-> PIO_NOERR]
  /\ sent = [p \in Procs |-> <<>>]
  /\ bpos = [p \in Procs |-> 0]
  /\ bcastLog = <<>>
  /\ hist = [p \in Procs |-> NoHist]
  /\ pre = [p \in Procs |-> [next |-> 16, ncid |-> NoId, list |-> <<>>]]
  /\ faults = 0
  /\ cnCall = [iosysid |-> 0, iotype |-> 0]
  /\ cnProc = [p \in Procs |-> [pc |-> "idle", passed |-> PIO_NOERR, status |-> PIO_NOERR,
                                ret |-> PIO_NOERR, failed |-> FALSE]]
  /\ cnLog = <<>>
  /\ pio_iodesc_list = <<>>
  /\ heap = {}
  /\ badFree = FALSE
  /\ pio_next_ioid = 512
  /\ fdOp = [op |-> "none", iosysid |-> 0, ioid |-> 0, ret |-> PIO_NOERR,
             found |-> FALSE, kept |-> TRUE, owned |-> {}]
  /\ mapCall = [op |-> "none", npes |-> 0, ndims |-> 0, gdims |-> <<>>,
                maps |-> [p \in Procs |-> <<>>], mallocZeroNull |-> FALSE,
                written |-> FALSE, own |-> FALSE]
  /\ mapFile = <<>>
  /\ mapProc = [p \in Procs |-> NoMapProc]
  /\ mapNet = {}
  /\ mapLog = <<>>
  /\ rgArena = {}
  /\ rgMem = <<>>
  /\ rgTop = 0
  /\ rgRet = 0
  /\ rgOp = NoRgOp
  /\ rgFaults = 0

\* The context of the call in progress (defined once the lookup succeeded).
Ios == IoSystems[call.iosysid]

SetHist(p, h) == [hist EXCEPT ![p] = h]

\* ------------------------------------------------------------ the caller
NullArgs == {"none", "ncidp", "iotype", "filename"}

\* Arguments used by the sequences of calls: a parallel type on a direct and on
\* an asynchronous context, both in return-error mode.
SeqIoSysIds == {1, 3}
SeqIoTypes == {PIO_IOTYPE_PNETCDF}
SeqHandlers == {PIO_RETURN_ERROR}

\* All processes make the next collective PIOc_openfile_retry call, with
\* arguments drawn from the given sets; the caller may have set the error
\* handling mode of the contexts before it.
StartWith(ids, types, modes, retries, nullargs, handlers, names, builds, maxcalls) ==
  /\ ncalls < maxcalls
  /\ \A p \in Procs : pc[p] \in {"idle", "returned"}
  /\ \E id \in ids, t \in types, m \in modes, r \in retries, na \in nullargs :
       \E fn \in names, be \in builds :
         call' = [iosysid |-> id, iotype |-> t, mode |-> m, retry |-> r, nullarg |-> na,
                  filename |-> fn, bigEndian |-> be]
  /\ \E h \in handlers : error_handler' = [i \in IoSysIds |-> h]
  /\ ncalls' = ncalls + 1
  /\ pc' = [p \in Procs |-> "entry"]
  /\ file' = [p \in Procs |-> NoFile]
  /\ ierr' = [p \in Procs |-> PIO_NOERR]
  /\ mpierr' = [p \in Procs |-> MPI_SUCCESS]
  /\ ret' = [p \in Procs |-> PIO_NOERR]
  /\ pend' = [p \in Procs |-> PIO_NOERR]
  /\ sent' = [p \in Procs |-> <<>>]
  /\ bpos' = [p \in Procs |-> 0]
  /\ bcastLog' = <<>>
  /\ hist' = [p \in Procs |-> NoHist]
  /\ pre' = [p \in Procs |-> [next |-> pio_next_ncid[p], ncid |-> ncids[p],
                              list |-> pio_file_list[p]]]
  /\ iotypes' = [p \in Procs |-> call'.iotype]
  /\ UNCHANGED <<callerVars, faults, restVars>>

\* A call with a one-letter filename on a little-endian build.
Start(ids, types, modes, retries, nullargs, handlers, maxcalls) ==
  StartWith(ids, types, modes, retries, nullargs, handlers, {<<97>>}, {FALSE}, maxcalls)

\* One call with any arguments.
StartCall ==
  Start(IoSysIds \cup {9}, 0..5, {0, PIO_WRITE}, BOOLEAN, NullArgs,
        ErrorHandlers, 1)

\* A sequence of calls with valid arguments.
StartNextCall ==
  Start(SeqIoSysIds, SeqIoTypes, {0}, {TRUE}, {"none"}, SeqHandlers, MaxCalls)

\* ------------------------------------------------- error classification
\* check_mpi / check_netcdf as called from PIOc_openfile_retry with a non-zero
\* status: under PIO_INTERNAL_ERROR the run is aborted; under PIO_BCAST_ERROR
\* the status is broadcast from ioroot over my_comm before the return; under
\* PIO_RETURN_ERROR the status is returned.  check_mpi hands PIO_EIO to
\* check_netcdf and returns PIO_EIO whatever check_netcdf returns.
Fail(p, viaMpi, status, h) ==
  LET st == IF viaMpi THEN PIO_EIO ELSE status
      h2 == [h EXCEPT !.tfail = viaMpi]
      eh == error_handler[call.iosysid] IN
  IF eh = PIO_INTERNAL_ERROR
  THEN /\ pc' = [q \in Procs |-> "aborted"]
       /\ hist' = SetHist(p, h2)
       /\ UNCHANGED <<ret, pend>>
  ELSE IF eh = PIO_BCAST_ERROR
  THEN /\ pc' = [pc EXCEPT ![p] = "cn_bcast"]
       /\ pend' = [pend EXCEPT ![p] = st]
       /\ hist' = SetHist(p, h2)
       /\ UNCHANGED ret
  ELSE /\ pc' = [pc EXCEPT ![p] = "returned"]
       /\ ret' = [ret EXCEPT ![p] = st]
       /\ hist' = SetHist(p, h2)
       /\ UNCHANGED pend

\* ---------------------------------------------------------- MPI_Bcast
\* A receiver can complete its next broadcast once the root has issued it.
BcastReady(p, root, failed) == p = root \/ failed \/ Len(bcastLog) > bpos[p]
\* Buffer contents after the broadcast.
BcastValue(p, root, local, failed) ==
  IF p = root \/ failed THEN local ELSE bcastLog[bpos[p] + 1]
BcastIssue(p, root, local) ==
  /\ bpos' = [bpos EXCEPT ![p] = @ + 1]
  /\ bcastLog' = IF p = root THEN Append(bcastLog, local) ELSE bcastLog

\* The return code of an MPI call or malloc: a failure uses up the budget.
Inject(failed) ==
  /\ failed => faults < MaxFaults
  /\ faults' = IF failed THEN faults + 1 ELSE faults

\* ------------------------------------------------------------- entry
\* Argument checks of lines 720-724 and the context lookup of 730-734.
ValidateArgs(c) ==
  IF c.nullarg # "none" THEN PIO_EINVAL
  ELSE IF c.iotype < PIO_IOTYPE_PNETCDF \/ c.iotype > PIO_IOTYPE_NETCDF4P THEN PIO_ENOMEM
  ELSE IF pio_get_iosystem_from_id(c.iosysid) = <<>> THEN PIO_EBADID
  ELSE PIO_NOERR

\* file->do_io, lines 765-771.
DoIo(iotype, rank) ==
  iotype = PIO_IOTYPE_NETCDF4P \/ iotype = PIO_IOTYPE_PNETCDF \/ rank = 0

\* The file_desc_t after lines 740-771.
NewFile(c, rank) ==
  [allocated |-> TRUE, fh |-> -1, iotype |-> c.iotype, iosysid |-> c.iosysid,
   mode |-> c.mode, do_io |-> DoIo(c.iotype, rank), pio_ncid |-> NoId]

\* Mutant: the operation code goes out after the parameters.
DispatchSteps_MsgLast(ios, p) ==
  IF ~ios.async_interface \/ ioproc(ios, p) THEN <<>>
  ELSE <<"len", "filename", "iotype", "mode">>
       \o (IF compmaster(ios, p) THEN <<"msg">> ELSE <<>>)

\* Steps of the initiating half of the dispatch, lines 779-794, in order.
DispatchSteps(ios, p) ==
  IF ~ios.async_interface \/ ioproc(ios, p) THEN <<>>
  ELSE (IF compmaster(ios, p) THEN <<"msg">> ELSE <<>>)
       \o <<"len", "filename", "iotype", "mode">>

\* Mutant: every process goes to the backend open.
AfterDispatch_All(ios, p) == "open"

\* Position after the dispatch: the switch of line 804 on I/O tasks, the
\* outcome broadcast of line 881 elsewhere.
AfterDispatch(ios, p) == IF ioproc(ios, p) THEN "open" ELSE "ierr_bcast"

Enter(p) ==
  /\ pc[p] = "entry"
  /\ LET v == ValidateArgs(call) IN
     IF v # PIO_NOERR
     THEN /\ pc' = [pc EXCEPT ![p] = "returned"]
          /\ ret' = [ret EXCEPT ![p] = v]
          /\ UNCHANGED <<file, mpierr, sent, faults, hist>>
     ELSE \E mallocFails \in BOOLEAN :
          IF mallocFails
          THEN /\ Inject(TRUE)
               /\ pc' = [pc EXCEPT ![p] = "returned"]
               /\ ret' = [ret EXCEPT ![p] = PIO_ENOMEM]
               /\ hist' = SetHist(p, [hist[p] EXCEPT !.nomem = TRUE])
               /\ UNCHANGED <<file, mpierr, sent>>
          ELSE LET steps == DispatchSteps(Ios, p) IN
               \E k \in 0..Len(steps) :
                 /\ Inject(k > 0)
                 /\ file' = [file EXCEPT ![p] = NewFile(call, io_rank(Ios, p))]
                 /\ sent' = [sent EXCEPT ![p] = IF k = 0 THEN steps ELSE SubSeq(steps, 1, k)]
                 /\ mpierr' = [mpierr EXCEPT ![p] = IF k = 0 THEN MPI_SUCCESS
                                                    ELSE CHOOSE e \in MpiErrors : TRUE]
                 /\ pc' = [pc EXCEPT ![p] = IF Ios.async_interface THEN "err_bcast"
                                            ELSE AfterDispatch(Ios, p)]
                 /\ hist' = SetHist(p, [hist[p] EXCEPT !.dfail = k > 0])
                 /\ UNCHANGED ret
  /\ UNCHANGED <<error_handler, callerVars, iotypes, call, ncalls, ierr, pend, bpos,
                 bcastLog, pre>>
  /\ UNCHANGED restVars

\* Mutant: the dispatch status is not taken from comproot.
StatusValue_Local(p, root, local, failed) == local

\* mpierr after the broadcast of line 797.
StatusValue(p, root, local, failed) == BcastValue(p, root, local, failed)

\* Lines 796-800: the dispatch status is broadcast from comproot over my_comm.
ErrBcast(p) ==
  /\ pc[p] = "err_bcast"
  /\ \E failed \in BOOLEAN :
       /\ BcastReady(p, Ios.comproot, failed)
       /\ Inject(failed)
       /\ BcastIssue(p, Ios.comproot, mpierr[p])
       /\ LET m == StatusValue(p, Ios.comproot, mpierr[p], failed) IN
          /\ mpierr' = [mpierr EXCEPT ![p] = m]
          /\ IF failed \/ m # MPI_SUCCESS
             THEN Fail(p, TRUE, PIO_EIO, [hist[p] EXCEPT !.sfail = failed])
             ELSE /\ pc' = [pc EXCEPT ![p] = AfterDispatch(Ios, p)]
                  /\ UNCHANGED <<ret, pend, hist>>
  /\ UNCHANGED <<error_handler, callerVars, iotypes, call, ncalls, file, ierr, sent, pre>>
  /\ UNCHANGED restVars

\* ------------------------------------------------------ the backend open
\* Handle the backend hands out for a successful open: the lowest one that no
\* file this process holds open through the same context is using.
NativeHandle(p, iosysid) ==
  LET used == {pio_file_list[p][i].fh :
                 i \in {j \in DOMAIN pio_file_list[p] : pio_file_list[p][j].iosysid = iosysid}}
  IN CHOOSE n \in 0..Len(pio_file_list[p]) : n \notin used /\ \A m \in 0..(n - 1) : m \in used

\* One backend open: status r, the handle is written on success only.
OpenWith(st, r, handle) ==
  [st EXCEPT !.ierr = r,
             !.opens = @ + 1,
             !.file.fh = IF r = PIO_NOERR THEN handle ELSE @]

\* Mutant: the serial types open on every I/O task.
NativeOpen_AllRanks(f, rank, r1, ra, handle) ==
  [OpenWith([file |-> f, ierr |-> PIO_NOERR, opens |-> 0, first |-> PIO_NOERR,
             second |-> PIO_NOERR, downgraded |-> FALSE, reopened |-> FALSE],
            r1, handle) EXCEPT !.first = r1]

\* The switch of lines 806-849 on an I/O task.  r1 is the status of the open
\* call, ra the status of ncmpi_buffer_attach.
NativeOpen(f, rank, r1, ra, handle) ==
  LET st0 == [file |-> f, ierr |-> PIO_NOERR, opens |-> 0, first |-> PIO_NOERR,
              second |-> PIO_NOERR, downgraded |-> FALSE, reopened |-> FALSE]
      serial(st) == IF rank = 0
                    THEN [OpenWith(st, r1, handle) EXCEPT !.first = r1]
                    ELSE st
  IN CASE f.iotype = PIO_IOTYPE_NETCDF4P ->
            [OpenWith([st0 EXCEPT !.file.mode = BitOr(@, NC_MPIIO)], r1, handle)
               EXCEPT !.first = r1]
       [] f.iotype = PIO_IOTYPE_NETCDF4C ->
            serial([st0 EXCEPT !.file.mode = BitOr(@, NC_NETCDF4)])
       [] f.iotype = PIO_IOTYPE_NETCDF -> serial(st0)
       [] f.iotype = PIO_IOTYPE_PNETCDF ->
            LET o == [OpenWith(st0, r1, handle) EXCEPT !.first = r1] IN
            IF o.ierr = PIO_NOERR /\ HasBit(o.file.mode, PIO_WRITE)
            THEN [o EXCEPT !.ierr = ra] ELSE o

\* Mutant: NC_ENOTNC is not taken as a reason to downgrade.
RetryEligible_OnlyEinval(e, iotype) ==
  e = NC_EINVAL /\ iotype # PIO_IOTYPE_NETCDF

\* Line 857: the failures that make the open eligible for the downgrade.
RetryEligible(e, iotype) ==
  (e = NC_ENOTNC \/ e = NC_EINVAL) /\ iotype # PIO_IOTYPE_NETCDF

\* Mutant: the downgrade is attempted whether or not the caller asked for it.
RetryRequested_Always(retry) == TRUE

\* Line 854: the downgrade is attempted only when the caller asked for it.
RetryRequested(retry) == retry

\* Lines 857-873: reset ierr, downgrade the file's iotype, re-open on io_rank 0.
RetryOnce(st, retry, rank, r2, handle) ==
  IF RetryRequested(retry) /\ RetryEligible(st.ierr, st.file.iotype)
  THEN LET d == [st EXCEPT !.ierr = PIO_NOERR,
                           !.file.iotype = PIO_IOTYPE_NETCDF,
                           !.downgraded = TRUE]
       IN IF rank = 0
          THEN [OpenWith(d, r2, handle) EXCEPT !.second = r2, !.reopened = TRUE]
          ELSE d
  ELSE st

\* Mutant: a re-open that fails with an eligible status is tried once more.
RetryBlock_Again(st, retry, rank, r2, handle) ==
  LET a == RetryOnce(st, retry, rank, r2, handle) IN
  IF a.reopened /\ (a.ierr = NC_ENOTNC \/ a.ierr = NC_EINVAL)
  THEN OpenWith(a, PIO_NOERR, handle)
  ELSE a

\* Lines 851-875: the retry block.
RetryBlock(st, retry, rank, r2, handle) == RetryOnce(st, retry, rank, r2, handle)

\* Lines 803-876 on an I/O task.
BackendOpen(p) ==
  /\ pc[p] = "open"
  /\ \E r1 \in OpenResults, ra \in OpenResults, r2 \in OpenResults :
       LET rank == io_rank(Ios, p)
           h == NativeHandle(p, call.iosysid)
           nat == NativeOpen(file[p], rank, r1, ra, h)
           st == RetryBlock(nat, call.retry, rank, r2, h)
       IN /\ file' = [file EXCEPT ![p] = st.file]
          /\ ierr' = [ierr EXCEPT ![p] = st.ierr]
          /\ hist' = SetHist(p, [hist[p] EXCEPT !.opens = st.opens, !.first = st.first,
                                                !.native = nat.ierr,
                                                !.second = st.second,
                                                !.outcome = st.ierr,
                                                !.opened = TRUE,
                                                !.downgraded = st.downgraded,
                                                !.reopened = st.reopened])
  /\ pc' = [pc EXCEPT ![p] = "ierr_bcast"]
  /\ UNCHANGED <<error_handler, callerVars, iotypes, call, ncalls, mpierr, ret, pend, sent,
                 bpos, bcastLog, pre, faults>>
  /\ UNCHANGED restVars

\* ----------------------------------------------- publishing the outcome
\* Mutant: the outcome is not taken from the I/O root.
OutcomeValue_Local(p, root, local, failed) == local

\* Value of ierr after the broadcast of line 881.
OutcomeValue(p, root, local, failed) == BcastValue(p, root, local, failed)

\* Lines 878-885: broadcast ierr from ioroot over my_comm and check it.
OutcomeBcast(p) ==
  /\ pc[p] = "ierr_bcast"
  /\ \E failed \in BOOLEAN :
       /\ BcastReady(p, Ios.ioroot, failed)
       /\ Inject(failed)
       /\ BcastIssue(p, Ios.ioroot, ierr[p])
       /\ LET e == OutcomeValue(p, Ios.ioroot, ierr[p], failed) IN
          /\ ierr' = [ierr EXCEPT ![p] = e]
          /\ IF failed
             THEN Fail(p, TRUE, PIO_EIO, [hist[p] EXCEPT !.reached = TRUE])
             ELSE IF e # PIO_NOERR
             THEN Fail(p, FALSE, e, [hist[p] EXCEPT !.reached = TRUE, !.gotIerr = TRUE,
                                                    !.rootIerr = e])
             ELSE /\ pc' = [pc EXCEPT ![p] = "mode_bcast"]
                  /\ hist' = SetHist(p, [hist[p] EXCEPT !.reached = TRUE, !.gotIerr = TRUE,
                                                        !.rootIerr = e])
                  /\ UNCHANGED <<ret, pend>>
  /\ UNCHANGED <<error_handler, callerVars, iotypes, call, ncalls, file, mpierr, sent, pre>>
  /\ UNCHANGED restVars

\* Mutant: the return code of the mode broadcast is not checked.
ModeBcastOk_Unchecked(failed) == TRUE

\* Line 890: the id is minted only when the mode broadcast returned success.
ModeBcastOk(failed) == ~failed

\* Mutant: the counter is not advanced.
MintNcid_NoIncrement(next) == [id |-> next, next |-> next]

\* Line 896: file->pio_ncid = pio_next_ncid++.
MintNcid(next) == [id |-> next, next |-> next + 1]

\* Mutant: the caller gets the counter instead of the id of the file.
CallerNcid_Counter(fileNcid, next) == next

\* Line 899: the id stored through ncidp.
CallerNcid(fileNcid, next) == fileNcid

\* pio_add_to_file_list: the handle is appended to the registry.  A registry
\* entry stands for the linked file_desc_t; it carries the fields that identify
\* the file.
pio_add_to_file_list(list, f) ==
  Append(list, [pio_ncid |-> f.pio_ncid, fh |-> f.fh, iosysid |-> f.iosysid])

\* Lines 887-908: broadcast the mode, mint the public id, hand it to the
\* caller and link the file into the registry.
Publish(p) ==
  /\ pc[p] = "mode_bcast"
  /\ \E failed \in BOOLEAN :
       /\ BcastReady(p, Ios.ioroot, failed)
       /\ Inject(failed)
       /\ BcastIssue(p, Ios.ioroot, file[p].mode)
       /\ IF ~ModeBcastOk(failed)
          THEN /\ Fail(p, TRUE, PIO_EIO, hist[p])
               /\ UNCHANGED <<callerVars, file>>
          ELSE LET m == BcastValue(p, Ios.ioroot, file[p].mode, failed)
                   n == MintNcid(pio_next_ncid[p])
                   f == [file[p] EXCEPT !.mode = m, !.pio_ncid = n.id]
               IN /\ file' = [file EXCEPT ![p] = f]
                  /\ pio_next_ncid' = [pio_next_ncid EXCEPT ![p] = n.next]
                  /\ ncids' = [ncids EXCEPT ![p] = CallerNcid(f.pio_ncid, n.next)]
                  /\ pio_file_list' = [pio_file_list EXCEPT ![p] = pio_add_to_file_list(@, f)]
                  /\ hist' = SetHist(p, [hist[p] EXCEPT
                                !.gotMode = ~failed, !.tfail = failed,
                                !.linkedAtWrite =
                                   \E i \in DOMAIN pio_file_list[p] :
                                     pio_file_list[p][i].pio_ncid = f.pio_ncid])
                  /\ pc' = [pc EXCEPT ![p] = "returned"]
                  /\ ret' = [ret EXCEPT ![p] = ierr[p]]
                  /\ UNCHANGED pend
  /\ UNCHANGED <<error_handler, iotypes, call, ncalls, ierr, mpierr, sent, pre>>
  /\ UNCHANGED restVars

\* check_netcdf, lines 353-355 and 364-366, under PIO_BCAST_ERROR: the status
\* is broadcast from ioroot over my_comm (the return code of the broadcast is
\* dropped) and returned; check_mpi then returns PIO_EIO instead.
CheckNetcdfBcast(p) ==
  /\ pc[p] = "cn_bcast"
  /\ \E failed \in BOOLEAN :
       /\ BcastReady(p, Ios.ioroot, failed)
       /\ Inject(failed)
       /\ BcastIssue(p, Ios.ioroot, pend[p])
       /\ LET s == BcastValue(p, Ios.ioroot, pend[p], failed) IN
          /\ pend' = [pend EXCEPT ![p] = s]
          /\ ret' = [ret EXCEPT ![p] = IF hist[p].tfail THEN PIO_EIO ELSE s]
  /\ pc' = [pc EXCEPT ![p] = "returned"]
  /\ UNCHANGED <<error_handler, callerVars, iotypes, call, ncalls, file, ierr, mpierr, sent,
                 hist, pre>>
  /\ UNCHANGED restVars

\* ---------------------------------------------------------------- close
\* pio_delete_file_from_list: the handle with the id is taken out of the
\* registry and released.
pio_delete_file_from_list(list, ncid) ==
  SelectSeq(list, LAMBDA f : f.pio_ncid # ncid)

HoldsOpen(p) == \E i \in DOMAIN pio_file_list[p] : pio_file_list[p][i].pio_ncid = ncids[p]

\* Collective PIOc_closefile on the id each caller holds (a process whose id
\* names no open file gets PIO_EBADID and changes nothing).
CloseFile ==
  /\ \A q \in Procs : pc[q] \in {"idle", "returned"}
  /\ \E p \in Procs : HoldsOpen(p)
  /\ pio_file_list' = [p \in Procs |-> pio_delete_file_from_list(pio_file_list[p], ncids[p])]
  /\ pc' = [p \in Procs |-> "idle"]
  /\ UNCHANGED <<error_handler, pio_next_ncid, ncids, iotypes, call, ncalls, file, ierr,
                 mpierr, ret, pend, sent, bpos, bcastLog, hist, pre, faults>>
  /\ UNCHANGED restVars

Step ==
  \/ \E p \in Procs : Enter(p)
  \/ \E p \in Procs : ErrBcast(p)
  \/ \E p \in Procs : BackendOpen(p)
  \/ \E p \in Procs : OutcomeBcast(p)
  \/ \E p \in Procs : Publish(p)
  \/ \E p \in Procs : CheckNetcdfBcast(p)
  \/ CloseFile

Next == StartCall \/ Step

Spec == Init /\ [][Next]_vars

\* Under PIO_RETURN_ERROR check_netcdf makes no broadcast.
NextSeq ==
  \/ StartNextCall
  \/ \E p \in Procs : Enter(p)
  \/ \E p \in Procs : ErrBcast(p)
  \/ \E p \in Procs : BackendOpen(p)
  \/ \E p \in Procs : OutcomeBcast(p)
  \/ \E p \in Procs : Publish(p)
  \/ CloseFile

SpecSeq == Init /\ [][NextSeq]_vars

\* ============================================================ properties
Returned(p) == ncalls > 0 /\ pc[p] = "returned"
CallValid == ncalls > 0 /\ ValidateArgs(call) = PIO_NOERR
\* The I/O group representative is past the backend open of this call.
RootOpened == CallValid /\ hist[Ios.ioroot].opened
\* No MPI call and no allocation of this call has failed on p.
LocalOk(p) == ~hist[p].tfail /\ ~hist[p].nomem

\* ------------------------------------------------------------------ C1
DowngradeCase ==
  /\ RootOpened
  /\ call.retry
  /\ call.iotype # PIO_IOTYPE_NETCDF
  /\ hist[Ios.ioroot].opens >= 1
  /\ hist[Ios.ioroot].first = NC_ENOTNC

\* C1 as stated: with retry set and a requested type other than serial
\* classic, when the first open fails with NC_ENOTNC the type of the file is
\* the serial classic type and every process returns success exactly when the
\* serial re-open on the group representative succeeded.
C1_AsStated ==
  DowngradeCase =>
    /\ file[Ios.ioroot].iotype = PIO_IOTYPE_NETCDF
    /\ \A p \in Procs :
         (Returned(p) /\ hist[p].reached) =>
           (ret[p] = PIO_NOERR <=>
              (hist[Ios.ioroot].reopened /\ hist[Ios.ioroot].second = PIO_NOERR))

\* C1 amended: as C1, the status being that of the processes on which no MPI
\* call and no allocation of the call failed; the type is the one in the file
\* record of the group representative.
C1_Downgrade ==
  DowngradeCase =>
    /\ file[Ios.ioroot].iotype = PIO_IOTYPE_NETCDF
    /\ hist[Ios.ioroot].reopened
    /\ \A p \in Procs :
         (Returned(p) /\ LocalOk(p)) =>
           (ret[p] = PIO_NOERR <=> hist[Ios.ioroot].second = PIO_NOERR)

C1_Witness ==
  /\ DowngradeCase
  /\ hist[Ios.ioroot].second = PIO_NOERR
  /\ \A p \in Procs : Returned(p) /\ LocalOk(p) /\ ret[p] = PIO_NOERR

\* ------------------------------------------------------------------ C2
NoRetryFailure ==
  /\ RootOpened
  /\ ~call.retry
  /\ hist[Ios.ioroot].native # PIO_NOERR

TypeUntouched(p) ==
  /\ iotypes[p] = call.iotype
  /\ file[p].allocated => file[p].iotype = call.iotype

\* C2 as stated: with retry = false, when the backend open fails every process
\* returns that failure status, no second open is made and the backend type
\* (file record and caller's argument) stays the requested one.
C2_AsStated ==
  NoRetryFailure =>
    \A p \in Procs :
      /\ hist[p].opens <= 1
      /\ TypeUntouched(p)
      /\ (Returned(p) /\ hist[p].reached) => ret[p] = hist[Ios.ioroot].native

\* C2 amended: as C2, the returned status being that of the processes on
\* which, and on whose I/O root, no MPI call and no allocation failed.
C2_NoRetry ==
  NoRetryFailure =>
    \A p \in Procs :
      /\ hist[p].opens <= 1
      /\ ~hist[p].reopened /\ ~hist[p].downgraded
      /\ TypeUntouched(p)
      /\ (Returned(p) /\ LocalOk(p) /\ LocalOk(Ios.ioroot)) =>
            ret[p] = hist[Ios.ioroot].native

C2_Witness ==
  /\ NoRetryFailure
  /\ hist[Ios.ioroot].native = NC_ENOTNC
  /\ call.iotype = PIO_IOTYPE_NETCDF4P
  /\ \A p \in Procs : Returned(p) /\ ret[p] = NC_ENOTNC

\* ------------------------------------------------------------------ C3
\* C3: when the downgrade fired in a call, every process that finishes the
\* call with the file open holds the serial classic type in its file record,
\* and only io_rank 0 re-opened.
C3_DowngradeEverywhere ==
  CallValid =>
    \A p \in Procs, q \in Procs :
      /\ hist[p].reopened => io_rank(Ios, p) = 0
      /\ (hist[p].downgraded /\ Returned(q) /\ ret[q] = PIO_NOERR) =>
            file[q].iotype = PIO_IOTYPE_NETCDF

\* ------------------------------------------------------------------ C4
\* Position of the outcome broadcast among the broadcasts of a call on my_comm.
OutcomePos == IF Ios.async_interface THEN 2 ELSE 1

\* C4: a process makes at most two backend opens in a call, the second one
\* only as the serial re-open of the downgrade, and after a re-open the
\* outcome the group representative holds and broadcasts is that of the
\* second open.
C4_OneShot ==
  CallValid =>
    \A p \in Procs :
      /\ hist[p].opens <= 2
      /\ hist[p].opens = 2 => (hist[p].reopened /\ hist[p].downgraded)
      /\ hist[p].reopened =>
           /\ hist[p].outcome = hist[p].second
           /\ pc[p] = "ierr_bcast" => ierr[p] = hist[p].second
           /\ (p = Ios.ioroot /\ Len(bcastLog) >= OutcomePos) =>
                 bcastLog[OutcomePos] = hist[p].second

C4_Witness ==
  /\ CallValid
  /\ hist[Ios.ioroot].opens = 2
  /\ hist[Ios.ioroot].second = NC_ENOTNC
  /\ Len(bcastLog) >= OutcomePos
  /\ \E p \in Procs : p # Ios.ioroot /\ Returned(p) /\ ret[p] = NC_ENOTNC

\* ------------------------------------------------------------------ C5
InvalidArgs ==
  /\ ncalls > 0
  /\ \/ call.nullarg # "none"
     \/ call.iotype < PIO_IOTYPE_PNETCDF
     \/ call.iotype > PIO_IOTYPE_NETCDF4P

\* C5: a call with a null handle-out, type-in or filename pointer or with a
\* backend type outside [PIO_IOTYPE_PNETCDF, PIO_IOTYPE_NETCDF4P] returns
\* PIO_EINVAL, having sent nothing, entered no collective, allocated no file
\* record, minted no id and left the registry alone.
C5_EntryValidation ==
  InvalidArgs =>
    \A p \in Procs :
      /\ pc[p] \in {"entry", "returned"}
      /\ sent[p] = <<>> /\ bpos[p] = 0 /\ bcastLog = <<>>
      /\ ~file[p].allocated
      /\ pio_next_ncid[p] = pre[p].next
      /\ ncids[p] = pre[p].ncid
      /\ pio_file_list[p] = pre[p].list
      /\ Returned(p) => ret[p] = PIO_EINVAL

\* ------------------------------------------------------------------ C6
CallerUnchanged(p) ==
  /\ pio_next_ncid[p] = pre[p].next
  /\ ncids[p] = pre[p].ncid
  /\ pio_file_list[p] = pre[p].list

\* C6: a call that ends with a non-zero status, or that met a transport
\* failure, leaves pio_next_ncid, the caller's id and the registry as they
\* were before the call.
C6_NoIdOnFailure ==
  \A p \in Procs :
    (Returned(p) /\ (ret[p] # PIO_NOERR \/ hist[p].tfail)) => CallerUnchanged(p)

C6_Witness ==
  \E p \in Procs :
    /\ Returned(p) /\ hist[p].gotIerr /\ ret[p] = 2 /\ p # Ios.ioroot
    /\ error_handler[call.iosysid] = PIO_BCAST_ERROR
    /\ CallerUnchanged(p)

\* ------------------------------------------------------------------ C7
\* The id the caller holds names a registry entry for the file of this call.
Linked(p) ==
  \E i \in DOMAIN pio_file_list[p] :
    /\ pio_file_list[p][i].pio_ncid = ncids[p]
    /\ pio_file_list[p][i].fh = file[p].fh
    /\ file[p].pio_ncid = ncids[p]

\* C7 as stated: when the id is written to *ncidp the registry already holds
\* the file under that id.
C7_AsStated ==
  \A p \in Procs :
    (Returned(p) /\ ncids[p] # pre[p].ncid) => hist[p].linkedAtWrite

\* C7 amended: the caller's id is written only in a call that returns success
\* after the I/O root published a successful open and the outcome and mode
\* broadcasts completed, and when that call has returned the registry holds
\* the file under that id.
C7_IdAfterLink ==
  \A p \in Procs :
    (ncalls > 0 /\ pc[p] \notin {"idle", "aborted"} /\ ncids[p] # pre[p].ncid) =>
      /\ Returned(p) /\ ret[p] = PIO_NOERR
      /\ hist[p].gotIerr /\ hist[p].rootIerr = PIO_NOERR /\ hist[p].gotMode
      /\ p = Ios.ioroot => (hist[p].outcome = PIO_NOERR /\ file[p].fh >= 0)
      /\ Linked(p)

C7_Witness ==
  \A p \in Procs :
    /\ Returned(p) /\ ret[p] = PIO_NOERR
    /\ ncids[p] # pre[p].ncid /\ Linked(p)

\* ------------------------------------------------------------------ C8
\* C8: on every process the ids of the open files are pairwise different and
\* increase in the order the files were opened, and every id handed out is
\* below the counter, whatever the native handles are.
C8_UniqueIds ==
  \A p \in Procs :
    /\ \A i \in DOMAIN pio_file_list[p], j \in DOMAIN pio_file_list[p] :
         i < j => pio_file_list[p][i].pio_ncid < pio_file_list[p][j].pio_ncid
    /\ \A i \in DOMAIN pio_file_list[p] : pio_file_list[p][i].pio_ncid < pio_next_ncid[p]
    /\ ncids[p] < pio_next_ncid[p]
    /\ ncalls > 0 => pio_next_ncid[p] >= pre[p].next

C8_Witness ==
  \E p \in Procs :
    /\ Len(pio_file_list[p]) = 2
    /\ pio_file_list[p][1].fh = pio_file_list[p][2].fh
    /\ pio_file_list[p][1].fh >= 0
    /\ pio_file_list[p][1].iosysid # pio_file_list[p][2].iosysid
    /\ pio_file_list[p][1].pio_ncid # pio_file_list[p][2].pio_ncid

\* ------------------------------------------------------------------ C9
\* C9: the processes that opened the same file in a collective call hold the
\* same public id for it.
C9_SameIdEverywhere ==
  \A p \in Procs, q \in Procs :
    (Returned(p) /\ Returned(q) /\ ret[p] = PIO_NOERR /\ ret[q] = PIO_NOERR
       /\ hist[p].gotMode /\ hist[q].gotMode) =>
      ncids[p] = ncids[q]

CnIoTypes == 1..5
\* Statuses passed by the callers: success, a backend code, a host errno.
CnStatuses == {PIO_NOERR, NC_EINVAL, 2}

\* check_netcdf, lines 337-371: what the switch does with a status.  Under
\* PIO_INTERNAL_ERROR a non-zero status ends the run (piodie or MPI_Abort);
\* under PIO_BCAST_ERROR the status is broadcast, whatever it is; a type
\* outside the cases reaches iotype_error and nothing else.
check_netcdf_switch(iotype, handler, status) ==
  CASE iotype \in {PIO_IOTYPE_NETCDF4P, PIO_IOTYPE_NETCDF4C, PIO_IOTYPE_NETCDF} ->
         IF handler = PIO_INTERNAL_ERROR
         THEN (IF status # PIO_NOERR THEN "abort" ELSE "return")
         ELSE IF handler = PIO_BCAST_ERROR THEN "bcast" ELSE "return"
    [] iotype = PIO_IOTYPE_PNETCDF ->
         IF status # PIO_NOERR /\ handler = PIO_INTERNAL_ERROR THEN "abort"
         ELSE IF handler = PIO_BCAST_ERROR THEN "bcast" ELSE "return"
    [] OTHER -> "return"

CnIos == IoSystems[cnCall.iosysid]

\* Every process of my_comm calls check_netcdf on its handle of the same file,
\* each with the status its own backend call returned.
CnStart ==
  /\ \A p \in Procs : cnProc[p].pc = "idle"
  /\ \E id \in IoSysIds, t \in CnIoTypes :
       cnCall' = [iosysid |-> id, iotype |-> t]
  /\ \E h \in ErrorHandlers : error_handler' = [i \in IoSysIds |-> h]
  /\ \E st \in [Procs -> CnStatuses] :
       cnProc' = [p \in Procs |-> [pc |-> "called", passed |-> st[p], status |-> st[p],
                                   ret |-> PIO_NOERR, failed |-> FALSE]]
  /\ cnLog' = <<>>
  /\ UNCHANGED <<openVars, rgVars, faults, fdVars, mapVars>>

\* Lines 325-373 up to the broadcast.
CnEnter(p) ==
  /\ cnProc[p].pc = "called"
  /\ LET w == check_netcdf_switch(cnCall.iotype, error_handler[cnCall.iosysid],
                                  cnProc[p].status) IN
     cnProc' = IF w = "abort" THEN [q \in Procs |-> [cnProc[q] EXCEPT !.pc = "aborted"]]
               ELSE IF w = "bcast" THEN [cnProc EXCEPT ![p].pc = "bcast"]
               ELSE [cnProc EXCEPT ![p].pc = "returned", ![p].ret = cnProc[p].status]
  /\ UNCHANGED <<error_handler, openVars, rgVars, faults, cnCall, cnLog, fdVars, mapVars>>

\* Status held after the broadcast of lines 354 and 365: the root keeps its
\* own, a receiver gets the root's unless the broadcast failed.
CnBcastValue(p, root, local, failed, log) ==
  IF p = root \/ failed THEN local ELSE log[1]

\* Lines 354 and 365, then the return of line 372: MPI_Bcast(&status, ...,
\* ios->ioroot, ios->my_comm); its return code goes to ierr, which is not read.
CnBcast(p) ==
  /\ cnProc[p].pc = "bcast"
  /\ \E failed \in BOOLEAN :
       /\ p = CnIos.ioroot \/ failed \/ cnLog # <<>>
       /\ Inject(failed)
       /\ cnLog' = IF p = CnIos.ioroot THEN Append(cnLog, cnProc[p].status) ELSE cnLog
       /\ LET s == CnBcastValue(p, CnIos.ioroot, cnProc[p].status, failed, cnLog) IN
          cnProc' = [cnProc EXCEPT ![p].pc = "returned", ![p].status = s, ![p].ret = s,
                                   ![p].failed = failed]
  /\ UNCHANGED <<error_handler, openVars, rgVars, cnCall, fdVars, mapVars>>

NextCn ==
  \/ CnStart
  \/ \E p \in Procs : CnEnter(p)
  \/ \E p \in Procs : CnBcast(p)

SpecCn == Init /\ [][NextCn]_vars

\* ------------------------------------------------------------------ C11
CnFailing == {p \in Procs : cnProc[p].passed # PIO_NOERR}

\* C11: under PIO_BCAST_ERROR, when exactly one process passed a failure
\* status to check_netcdf and no broadcast failed, every process returns the
\* same non-zero status.
C11_Dissemination ==
  ( /\ \A p \in Procs : cnProc[p].pc = "returned" /\ ~cnProc[p].failed
    /\ error_handler[cnCall.iosysid] = PIO_BCAST_ERROR
    /\ cnCall.iotype \in PIO_IOTYPE_PNETCDF..PIO_IOTYPE_NETCDF4P
    /\ Cardinality(CnFailing) = 1 )
  => \E s \in CnStatuses \ {PIO_NOERR} : \A p \in Procs : cnProc[p].ret = s


\* ================================================ decomposition descriptors
\* A resource of the descriptor with the given id.
Res(ioid, kind, idx) == <<ioid, kind, idx>>

RECURSIVE Flatten(_)
Flatten(ss) == IF ss = <<>> THEN <<>> ELSE Head(ss) \o Flatten(Tail(ss))

\* An array of message-layout handles: alloc is FALSE for a NULL array; h[i]
\* is FALSE for MPI_DATATYPE_NULL.
NoArray == [alloc |-> FALSE, h |-> <<>>]

\* alloc_region, lines 382-406: a node with both coordinate arrays, or NULL.
\* A region list is the sequence of its nodes, NULL the empty sequence.
alloc_region(ok) == IF ok THEN <<[start |-> TRUE, count |-> TRUE]>> ELSE <<>>

\* malloc_iodesc, lines 408-454: every exchange field at its sentinel, the
\* first region preallocated, no fill list.
malloc_iodesc(regionOk) ==
  [ioid |-> -1, rearranger |-> 0, bufs |-> {}, rtype |-> NoArray, stype |-> NoArray,
   firstregion |-> alloc_region(regionOk), fillregion |-> <<>>, subset_comm |-> FALSE]

\* What the decomposition build may have stored in the descriptor by the time
\* it is destroyed: the index and count arrays, the two handle arrays (some
\* entries MPI_DATATYPE_NULL), further region nodes (the last one without its
\* count array), a fill region list, and for the subset rearranger its
\* communicator.
BuildGroups == {"bufs", "types", "regions", "fill", "subset"}

DecompBuild(d, g) ==
  [d EXCEPT
     !.bufs = IF "bufs" \in g THEN {"rfrom", "scount", "rcount", "sindex", "rindex"} ELSE {},
     !.rtype = IF "types" \in g
               THEN [alloc |-> TRUE, h |-> [i \in 1..MaxTypes |-> i % 2 = 1]] ELSE NoArray,
     !.stype = IF "types" \in g
               THEN [alloc |-> TRUE, h |-> [i \in 1..MaxTypes |-> i % 2 = 0]] ELSE NoArray,
     !.firstregion = IF "regions" \in g /\ d.firstregion # <<>>
                     THEN [i \in 1..MaxRegions |->
                             [start |-> TRUE, count |-> i < MaxRegions]]
                     ELSE d.firstregion,
     !.fillregion = IF "fill" \in g THEN <<[start |-> TRUE, count |-> TRUE]>> ELSE <<>>,
     !.rearranger = IF "subset" \in g THEN PIO_REARR_SUBSET
                    ELSE IF g = {} THEN d.rearranger ELSE 1,
     !.subset_comm = "subset" \in g]

FirstKinds == [node |-> "first_node", start |-> "first_start", count |-> "first_count"]
FillKinds == [node |-> "fill_node", start |-> "fill_start", count |-> "fill_count"]

RegionResources(id, k, top) ==
  UNION {{Res(id, k.node, i)}
           \cup (IF top[i].start THEN {Res(id, k.start, i)} ELSE {})
           \cup (IF top[i].count THEN {Res(id, k.count, i)} ELSE {}) : i \in DOMAIN top}

ArrayResources(id, kindH, kindArr, arr) ==
  IF arr.alloc
  THEN {Res(id, kindArr, 0)} \cup {Res(id, kindH, i) : i \in {j \in DOMAIN arr.h : arr.h[j]}}
  ELSE {}

\* Everything the descriptor owns.
Owned(d) ==
  {Res(d.ioid, b, 0) : b \in d.bufs}
    \cup ArrayResources(d.ioid, "rtype_h", "rtype", d.rtype)
    \cup ArrayResources(d.ioid, "stype_h", "stype", d.stype)
    \cup RegionResources(d.ioid, FirstKinds, d.firstregion)
    \cup RegionResources(d.ioid, FillKinds, d.fillregion)
    \cup (IF d.subset_comm THEN {Res(d.ioid, "subset_comm", 0)} ELSE {})

\* free_region_list, lines 456-471: the releases it makes, in order.
free_region_list(id, k, top) ==
  Flatten([i \in DOMAIN top |->
             (IF top[i].start THEN <<Res(id, k.start, i)>> ELSE <<>>)
               \o (IF top[i].count THEN <<Res(id, k.count, i)>> ELSE <<>>)
               \o <<Res(id, k.node, i)>>])

\* Lines 489-496 and 497-505: the non-null handles, then the array.
FreeTypes(id, kindH, kindArr, arr) ==
  IF arr.alloc
  THEN Flatten([i \in DOMAIN arr.h |-> IF arr.h[i] THEN <<Res(id, kindH, i)>> ELSE <<>>])
         \o <<Res(id, kindArr, 0)>>
  ELSE <<>>

FreeBuf(d, b) == IF b \in d.bufs THEN <<Res(d.ioid, b, 0)>> ELSE <<>>

\* PIOc_freedecomp, lines 487-521: the releases it makes, in order.
FreedecompReleases(d) ==
  FreeBuf(d, "rfrom")
    \o FreeTypes(d.ioid, "rtype_h", "rtype", d.rtype)
    \o FreeTypes(d.ioid, "stype_h", "stype", d.stype)
    \o FreeBuf(d, "scount") \o FreeBuf(d, "rcount")
    \o FreeBuf(d, "sindex") \o FreeBuf(d, "rindex")
    \o (IF d.firstregion # <<>> THEN free_region_list(d.ioid, FirstKinds, d.firstregion)
        ELSE <<>>)
    \o (IF d.rearranger = PIO_REARR_SUBSET THEN <<Res(d.ioid, "subset_comm", 0)>> ELSE <<>>)

\* The heap after a sequence of releases; bad when one of them hits something
\* that is not allocated.
RECURSIVE ApplyReleases(_, _)
ApplyReleases(st, rs) ==
  IF rs = <<>> THEN st
  ELSE ApplyReleases([heap |-> st.heap \ {Head(rs)},
                      bad |-> st.bad \/ Head(rs) \notin st.heap], Tail(rs))

\* pio_get_iodesc_from_id: the descriptors of the registry with the id.
pio_get_iodesc_from_id(list, ioid) == SelectSeq(list, LAMBDA d : d.ioid = ioid)

\* pio_delete_iodesc_from_list: the entry is taken out.
pio_delete_iodesc_from_list(list, ioid) == SelectSeq(list, LAMBDA d : d.ioid # ioid)

\* Lines 479-485: the two lookups.
LookupFailed_IosOnly(ios, found) == ios = <<>>

LookupFailed(ios, found) == ios = <<>> \/ found = <<>>

\* A decomposition is defined: malloc_iodesc, the build, and the registry
\* gives the descriptor its id.
FdCreate ==
  /\ pio_next_ioid < 512 + MaxDecomps
  /\ \E regionOk \in BOOLEAN, g \in SUBSET BuildGroups :
       LET d == [DecompBuild(malloc_iodesc(regionOk), g) EXCEPT !.ioid = pio_next_ioid] IN
       /\ pio_iodesc_list' = Append(pio_iodesc_list, d)
       /\ heap' = heap \cup Owned(d)
       /\ fdOp' = [op |-> "create", iosysid |-> 0, ioid |-> d.ioid, ret |-> PIO_NOERR,
                   found |-> FALSE, kept |-> FALSE, owned |-> {}]
  /\ pio_next_ioid' = pio_next_ioid + 1
  /\ UNCHANGED <<badFree, error_handler, openVars, rgVars, faults, cnVars, mapVars>>

\* PIOc_freedecomp(iosysid, ioid), lines 473-526.
FdDestroy ==
  /\ \E iosysid \in {1, 9}, ioid \in 511..(512 + MaxDecomps) :
       LET ios == pio_get_iosystem_from_id(iosysid)
           found == pio_get_iodesc_from_id(pio_iodesc_list, ioid)
           known == found # <<>>
       IN IF LookupFailed(ios, found)
          THEN /\ fdOp' = [op |-> "destroy", iosysid |-> iosysid, ioid |-> ioid,
                           ret |-> PIO_EBADID, found |-> known, kept |-> TRUE,
                           owned |-> {}]
               /\ UNCHANGED <<pio_iodesc_list, heap, badFree>>
          ELSE IF ~known
          THEN \* a null descriptor is dereferenced at line 487
               /\ fdOp' = [op |-> "destroy", iosysid |-> iosysid, ioid |-> ioid,
                           ret |-> PIO_NOERR, found |-> FALSE, kept |-> FALSE,
                           owned |-> {}]
               /\ badFree' = TRUE
               /\ UNCHANGED <<pio_iodesc_list, heap>>
          ELSE LET d == found[1]
                   st == ApplyReleases([heap |-> heap, bad |-> badFree],
                                       FreedecompReleases(d))
               IN /\ heap' = st.heap
                  /\ badFree' = st.bad
                  /\ pio_iodesc_list' = pio_delete_iodesc_from_list(pio_iodesc_list, ioid)
                  /\ fdOp' = [op |-> "destroy", iosysid |-> iosysid, ioid |-> ioid,
                              ret |-> PIO_NOERR, found |-> TRUE, kept |-> FALSE,
                              owned |-> Owned(d)]
  /\ UNCHANGED <<pio_next_ioid, error_handler, openVars, rgVars, faults, cnVars, mapVars>>

NextFd == FdCreate \/ FdDestroy

SpecFd == Init /\ [][NextFd]_vars

RegistryIds == {pio_iodesc_list[i].ioid : i \in DOMAIN pio_iodesc_list}

\* ------------------------------------------------------------------ C12
\* C12: a destroy of an id the registry does not hold (never created, or
\* destroyed before) returns PIO_EBADID and releases nothing and leaves the
\* registry as it was; a successful destroy takes the id out of the registry.
C12_ExactlyOnce ==
  fdOp.op = "destroy" =>
    /\ ~fdOp.found => (fdOp.ret = PIO_EBADID /\ fdOp.kept /\ fdOp.owned = {})
    /\ fdOp.ret = PIO_NOERR => fdOp.ioid \notin RegistryIds
    /\ fdOp.ret \in {PIO_NOERR, PIO_EBADID}
    /\ (fdOp.found /\ fdOp.iosysid \in IoSysIds) => fdOp.ret = PIO_NOERR

\* A second destroy of a destroyed id.
C12_Witness ==
  /\ fdOp.op = "destroy" /\ fdOp.ioid = 512 /\ pio_next_ioid > 512
  /\ ~fdOp.found /\ fdOp.ret = PIO_EBADID /\ fdOp.iosysid \in IoSysIds
  /\ pio_iodesc_list = <<>>

\* ------------------------------------------------------------------ C13
\* C13: after a successful destroy nothing the descriptor owned is still
\* allocated, and no release hit a resource twice.
C13_ReleasesAll ==
  (fdOp.op = "destroy" /\ fdOp.ret = PIO_NOERR) =>
    (fdOp.owned \cap heap = {} /\ ~badFree)


\* ======================================================== decomposition maps
\* Values of the global dimension sizes and of the map offsets.
MapDimSizes == {4}
MapOffsets == {0, 5}

SeqsUpTo(S, n) == UNION {[1..k -> S] : k \in 0..n}

MapRanks == 0..(mapCall.npes - 1)

MapAbort == [p \in Procs |-> IF p \in MapRanks THEN [mapProc[p] EXCEPT !.pc = "aborted"]
                             ELSE mapProc[p]]

\* The ranks of a group of at most MaxPes processes call PIOc_writemap with
\* their maps.  mallocZeroNull: whether malloc(0) and calloc(0, n) return NULL
\* in this build.
MapStartWrite ==
  /\ mapCall.op = "none"
  /\ \E n \in 1..MaxPes, dims \in SeqsUpTo(MapDimSizes, 1), mz \in BOOLEAN :
       \E maps \in [0..(n - 1) -> SeqsUpTo(MapOffsets, MaxMapLen)] :
         /\ mapCall' = [op |-> "write", npes |-> n, ndims |-> Len(dims), gdims |-> dims,
                        maps |-> [p \in Procs |-> IF p < n THEN maps[p] ELSE <<>>],
                        mallocZeroNull |-> mz, written |-> FALSE, own |-> FALSE]
         /\ mapProc' = [p \in Procs |-> IF p < n THEN [NoMapProc EXCEPT !.pc = "w_gather"]
                                        ELSE NoMapProc]
  /\ mapFile' = <<>>
  /\ mapNet' = {}
  /\ mapLog' = <<>>
  /\ UNCHANGED <<error_handler, openVars, rgVars, faults, cnVars, fdVars>>

\* Line 635: MPI_Gather of maplen to rank 0.
WGather(r) ==
  /\ mapCall.op = "write" /\ mapProc[r].pc = "w_gather"
  /\ mapLog' = Append(mapLog, <<r, Len(mapCall.maps[r])>>)
  /\ mapProc' = [mapProc EXCEPT ![r].pc = IF r = 0 THEN "w_root" ELSE "w_wait"]
  /\ UNCHANGED <<mapCall, mapFile, mapNet, error_handler, openVars, rgVars, faults, cnVars, fdVars>>

\* nmaplen[i] on rank 0 after the gather.
nmaplen(i) == (CHOOSE e \in Range(mapLog) : e[1] = i)[2]

\* One record as fprintf writes it, lines 651-654 and 661-664: the rank, the
\* length, then that many offsets.
MapRecord(i, len, data) == <<i, len>> \o SubSeq(data, 1, len)

\* The end of the writer on rank 0, lines 670-678.
WFinish(i) ==
  IF i = mapCall.npes
  THEN /\ mapProc' = [mapProc EXCEPT ![0].pc = "returned", ![0].ret = PIO_NOERR, ![0].i = i]
       /\ mapCall' = [mapCall EXCEPT !.written = TRUE]
  ELSE /\ mapProc' = [mapProc EXCEPT ![0].pc = "w_send", ![0].i = i]
       /\ UNCHANGED mapCall

\* Lines 637-654 on rank 0, once the gather is complete: the file is opened
\* (PIO_EIO is returned when that fails), header, dimension sizes and the
\* record of rank 0 are written.
WRoot ==
  /\ mapCall.op = "write" /\ mapProc[0].pc = "w_root"
  /\ Len(mapLog) = mapCall.npes
  /\ \E opened \in BOOLEAN :
       /\ Inject(~opened)
       /\ IF ~opened
          THEN /\ mapProc' = [mapProc EXCEPT ![0].pc = "returned", ![0].ret = PIO_EIO]
               /\ UNCHANGED <<mapFile, mapCall>>
          ELSE /\ mapFile' = <<versno, mapCall.npes, mapCall.ndims>> \o mapCall.gdims
                               \o MapRecord(0, nmaplen(0), mapCall.maps[0])
               /\ WFinish(1)
  /\ UNCHANGED <<mapNet, mapLog, error_handler, openVars, rgVars, cnVars, fdVars>>

\* Line 658: rank 0 asks rank i for its map.
WRootSend ==
  /\ mapCall.op = "write" /\ mapProc[0].pc = "w_send"
  /\ LET i == mapProc[0].i IN
     mapNet' = mapNet \cup {[src |-> 0, dst |-> i, tag |-> mapCall.npes + i, data |-> <<i>>]}
  /\ mapProc' = [mapProc EXCEPT ![0].pc = "w_recv"]
  /\ UNCHANGED <<mapCall, mapFile, mapLog, error_handler, openVars, rgVars, faults, cnVars, fdVars>>

\* Lines 659-666: the map of rank i is received and written.
WRootRecv ==
  /\ mapCall.op = "write" /\ mapProc[0].pc = "w_recv"
  /\ LET i == mapProc[0].i IN
     \E m \in mapNet :
       /\ m.src = i /\ m.dst = 0 /\ m.tag = i
       /\ mapNet' = mapNet \ {m}
       /\ mapFile' = mapFile \o MapRecord(i, nmaplen(i), m.data)
       /\ WFinish(i + 1)
  /\ UNCHANGED <<mapLog, error_handler, openVars, rgVars, faults, cnVars, fdVars>>

\* Lines 675-676 on the other ranks.
WReply(r) ==
  /\ mapCall.op = "write" /\ mapProc[r].pc = "w_wait"
  /\ \E m \in mapNet :
       /\ m.src = 0 /\ m.dst = r /\ m.tag = mapCall.npes + r
       /\ mapNet' = (mapNet \ {m})
                      \cup {[src |-> r, dst |-> 0, tag |-> r, data |-> mapCall.maps[r]]}
  /\ mapProc' = [mapProc EXCEPT ![r].pc = "returned", ![r].ret = PIO_NOERR]
  /\ UNCHANGED <<mapCall, mapFile, mapLog, error_handler, openVars, rgVars, faults, cnVars, fdVars>>


\* A map file in the format of the writer, with the given version and process
\* count, one dimension and a one-entry map for every rank.
ForeignFile(v, k) ==
  <<v, k, 1, 4>> \o Flatten([i \in 1..k |-> MapRecord(i - 1, 1, <<5>>)])

\* The ranks of a group call PIOc_readmap: on the file the same group has just
\* written, or on a file from elsewhere.
MapStartRead ==
  /\ mapCall.op \in {"none", "write"}
  /\ \A p \in Procs : mapProc[p].pc \in {"idle", "returned"}
  /\ \/ /\ mapCall.written
        /\ mapCall' = [mapCall EXCEPT !.op = "read", !.own = TRUE]
        /\ UNCHANGED mapFile
     \/ /\ mapCall.op = "none"
        /\ \E n \in 1..MaxPes, v \in {versno, versno - 1}, mz \in BOOLEAN :
             \E k \in 0..(n + 1) :
               /\ mapCall' = [mapCall EXCEPT !.op = "read", !.npes = n,
                                             !.mallocZeroNull = mz]
               /\ mapFile' = ForeignFile(v, k)
  /\ mapProc' = [p \in Procs |-> IF p < mapCall'.npes
                                 THEN [NoMapProc EXCEPT !.pc = IF p = 0 THEN "r_root"
                                                               ELSE "r_bcast"]
                                 ELSE NoMapProc]
  /\ mapNet' = {}
  /\ mapLog' = <<>>
  /\ UNCHANGED <<error_handler, openVars, rgVars, faults, cnVars, fdVars>>

\* Lines 552-556: the header is accepted.
HeaderOk_NoVersion(rversno, rnpes, npes) == ~(rnpes < 1 \/ rnpes > npes)

HeaderOk(rversno, rnpes, npes) == rversno = versno /\ ~(rnpes < 1 \/ rnpes > npes)

\* malloc or calloc of n elements returns NULL.
AllocNull(n) == n = 0 /\ mapCall.mallocZeroNull

\* Lines 545-565 on rank 0: the file is opened, the header is read and
\* checked, rnpes and ndims are broadcast, the dimension sizes are read and
\* broadcast.  piodie ends the run of every process.
RRoot ==
  /\ mapCall.op = "read" /\ mapProc[0].pc = "r_root"
  /\ \E opened \in BOOLEAN :
       /\ Inject(~opened)
       /\ LET rversno == mapFile[1]
              rnpes == mapFile[2]
              nd == mapFile[3]
              tdims == SubSeq(mapFile, 4, 3 + nd)
          IN IF ~opened
             THEN /\ mapProc' = [MapAbort EXCEPT ![0].opened = FALSE]
                  /\ UNCHANGED mapLog
             ELSE IF ~HeaderOk(rversno, rnpes, mapCall.npes)
             THEN /\ mapProc' = MapAbort
                  /\ UNCHANGED mapLog
             ELSE IF AllocNull(nd)
             THEN /\ mapProc' = MapAbort
                  /\ mapLog' = <<rnpes, nd>>
             ELSE /\ mapLog' = <<rnpes, nd, tdims>>
                  /\ mapProc' = [mapProc EXCEPT ![0].pc = "r_loop", ![0].rnpes = rnpes,
                                                ![0].ndims = nd, ![0].tdims = tdims,
                                                ![0].fpos = 4 + nd, ![0].i = 0]
  /\ UNCHANGED <<mapCall, mapFile, mapNet, error_handler, openVars, rgVars, cnVars, fdVars>>

\* Lines 567-585 and 586, 605-606 on rank 0: one record is read and kept or
\* forwarded; after the last one the call returns.
RRootRecord ==
  /\ mapCall.op = "read" /\ mapProc[0].pc = "r_loop"
  /\ LET me == mapProc[0]
         i == me.i
         j == mapFile[me.fpos]
         maplen == mapFile[me.fpos + 1]
         tmap == SubSeq(mapFile, me.fpos + 2, me.fpos + 1 + maplen)
         last == i + 1 = me.rnpes
         nxt == [me EXCEPT !.i = i + 1, !.fpos = me.fpos + 2 + maplen,
                           !.pc = IF last THEN "returned" ELSE "r_loop",
                           !.ret = PIO_NOERR,
                           !.gdims = IF last THEN me.tdims ELSE me.gdims]
     IN IF j # i \/ AllocNull(maplen)
        THEN /\ mapProc' = MapAbort
             /\ UNCHANGED mapNet
        ELSE IF i > 0
        THEN /\ mapNet' = mapNet \cup
                            {[src |-> 0, dst |-> i, tag |-> i + mapCall.npes,
                              data |-> <<maplen>>],
                             [src |-> 0, dst |-> i, tag |-> i, data |-> tmap]}
             /\ mapProc' = [mapProc EXCEPT ![0] = nxt]
        ELSE /\ mapProc' = [mapProc EXCEPT ![0] = [nxt EXCEPT !.map = tmap,
                                                               !.fmaplen = maplen]]
             /\ UNCHANGED mapNet
  /\ UNCHANGED <<mapCall, mapFile, mapLog, error_handler, openVars, rgVars, faults, cnVars, fdVars>>

\* Lines 588-591 and 599-606 on the other ranks: the three broadcasts; a rank
\* the file has no record for returns an empty map.
RBcast(r) ==
  /\ mapCall.op = "read" /\ mapProc[r].pc = "r_bcast"
  /\ Len(mapLog) = 3
  /\ LET rnpes == mapLog[1] IN
     mapProc' = [mapProc EXCEPT
                   ![r].rnpes = rnpes, ![r].ndims = mapLog[2], ![r].tdims = mapLog[3],
                   ![r].pc = IF r < rnpes THEN "r_len" ELSE "returned",
                   ![r].ret = PIO_NOERR,
                   ![r].fmaplen = IF r < rnpes THEN @ ELSE 0,
                   ![r].gdims = IF r < rnpes THEN @ ELSE mapLog[3]]
  /\ UNCHANGED <<mapCall, mapFile, mapNet, mapLog, error_handler, openVars, rgVars, faults, cnVars,
                 fdVars>>

\* Lines 594-596: the length is received and the map allocated.
RRecvLen(r) ==
  /\ mapCall.op = "read" /\ mapProc[r].pc = "r_len"
  /\ \E m \in mapNet :
       /\ m.src = 0 /\ m.dst = r /\ m.tag = r + mapCall.npes
       /\ mapNet' = mapNet \ {m}
       /\ mapProc' = IF AllocNull(m.data[1]) THEN MapAbort
                     ELSE [mapProc EXCEPT ![r].maplen = m.data[1], ![r].pc = "r_map"]
  /\ UNCHANGED <<mapCall, mapFile, mapLog, error_handler, openVars, rgVars, faults, cnVars, fdVars>>

\* Lines 597-598 and 603-606: the map is received and the call returns.
RRecvMap(r) ==
  /\ mapCall.op = "read" /\ mapProc[r].pc = "r_map"
  /\ \E m \in mapNet :
       /\ m.src = 0 /\ m.dst = r /\ m.tag = r
       /\ mapNet' = mapNet \ {m}
       /\ mapProc' = [mapProc EXCEPT ![r].map = SubSeq(m.data, 1, mapProc[r].maplen),
                                     ![r].fmaplen = mapProc[r].maplen,
                                     ![r].gdims = mapProc[r].tdims,
                                     ![r].pc = "returned", ![r].ret = PIO_NOERR]
  /\ UNCHANGED <<mapCall, mapFile, mapLog, error_handler, openVars, rgVars, faults, cnVars, fdVars>>

NextMap ==
  \/ MapStartWrite
  \/ \E r \in Procs : WGather(r)
  \/ WRoot
  \/ WRootSend
  \/ WRootRecv
  \/ \E r \in Procs : WReply(r)
  \/ MapStartRead
  \/ RRoot
  \/ RRootRecord
  \/ \E r \in Procs : RBcast(r)
  \/ \E r \in Procs : RRecvLen(r)
  \/ \E r \in Procs : RRecvMap(r)

SpecMap == Init /\ [][NextMap]_vars

\* ------------------------------------------------------------------ C14
MapRead(p) == mapCall.op = "read" /\ p \in MapRanks /\ mapProc[p].pc = "returned"

\* What rank p gets back is what was written.
SameAsWritten(p) ==
  /\ mapProc[p].ret = PIO_NOERR
  /\ mapProc[p].ndims = mapCall.ndims
  /\ mapProc[p].gdims = mapCall.gdims
  /\ mapProc[p].fmaplen = Len(mapCall.maps[p])
  /\ mapProc[p].map = mapCall.maps[p]

\* C14: when a group reads the file it has written (with at least one
\* dimension) and can open it, no rank fails, the
\* records are in increasing rank order from 0, and every rank that has
\* returned holds the dimension sizes and the map it wrote.
C14_RoundTrip ==
  (mapCall.op = "read" /\ mapCall.own /\ mapProc[0].opened /\ mapCall.ndims > 0) =>
    \A p \in MapRanks :
      /\ mapProc[p].pc # "aborted"
      /\ mapProc[p].pc = "returned" => SameAsWritten(p)

\* ------------------------------------------------------------------ C15
BadHeader ==
  /\ mapCall.op = "read" /\ Len(mapFile) >= 3
  /\ (mapFile[1] # versno \/ mapFile[2] < 1 \/ mapFile[2] > mapCall.npes)

\* C15: on a file whose version is not 2001 or whose process count is outside
\* [1, group size] no rank returns, rank 0 ends the run of every rank as soon
\* as it has read the header, and before that nothing has been broadcast or
\* sent and no dimension size or record has been read.
C15_HeaderCheck ==
  BadHeader =>
    /\ \A p \in MapRanks : mapProc[p].pc \in {"r_root", "r_bcast", "aborted"}
    /\ mapProc[0].pc # "r_root" => \A p \in MapRanks : mapProc[p].pc = "aborted"
    /\ mapLog = <<>> /\ mapNet = {}
    /\ \A p \in MapRanks : mapProc[p].tdims = <<>> /\ mapProc[p].map = <<>>
                            /\ mapProc[p].fpos = 1

C15_Witness ==
  /\ BadHeader /\ mapCall.npes > 1 /\ mapFile[1] # versno /\ mapFile[2] = mapCall.npes
  /\ \A p \in MapRanks : mapProc[p].pc = "aborted"


\* ===================================================== the dispatch of an open
PIO_MSG_OPEN_FILE == "PIO_MSG_OPEN_FILE"

\* Filenames of every length up to MaxNameLen.
Filenames == {[i \in 1..k |-> 96 + i] : k \in 0..MaxNameLen}

\* strlen.
strlen(name) == Len(name)

\* The eight bytes of a size_t as four 16-bit halfwords in memory order: least
\* significant first on a little-endian build, most significant first on a
\* big-endian one. The values here are below 2^31, so the upper two are zero.
SizeTInMemory(n, bigEndian) ==
  LET lo == n % 65536
      hi == (n \div 65536) % 65536
  IN IF bigEndian THEN <<0, 0, hi, lo>> ELSE <<lo, hi, 0, 0>>

\* What MPI reads through &len with count 1 and type MPI_INT (lines 777 and
\* 787): the int in the first four bytes of the size_t.
LenAsInt(len, bigEndian) ==
  LET m == SizeTInMemory(len, bigEndian)
  IN IF bigEndian THEN m[1] * 65536 + m[2] ELSE m[1] + m[2] * 65536

\* The message a dispatch step puts on the wire, lines 776-793.
DispatchMessage(step, c) ==
  CASE step = "msg" -> [step |-> step, count |-> 1, data |-> <<PIO_MSG_OPEN_FILE>>]
    [] step = "len" ->
         [step |-> step, count |-> 1, data |-> <<LenAsInt(strlen(c.filename), c.bigEndian)>>]
    [] step = "filename" ->
         [step |-> step, count |-> strlen(c.filename) + 1, data |-> c.filename \o <<0>>]
    [] step = "iotype" -> [step |-> step, count |-> 1, data |-> <<c.iotype>>]
    [] step = "mode" -> [step |-> step, count |-> 1, data |-> <<c.mode>>]

\* Everything process p has put on the wire in the dispatch of this call.
Wire(p) == [i \in DOMAIN sent[p] |-> DispatchMessage(sent[p][i], call)]

\* What an I/O process is handed by the broadcasts over the intercommunicator:
\* the buffers of their root, the compute representative.
Delivered(q) == SelectSeq(Wire(Ios.comproot), LAMBDA m : m.step # "msg")

\* One open on an asynchronous context in return-error mode, with a filename
\* of any length, on either build.
StartDispatch ==
  StartWith({2, 3}, {PIO_IOTYPE_PNETCDF, PIO_IOTYPE_NETCDF}, {0, PIO_WRITE}, {FALSE},
            {"none"}, {PIO_RETURN_ERROR}, Filenames, BOOLEAN, 1)

NextDispatch ==
  \/ StartDispatch
  \/ \E p \in Procs : Enter(p)
  \/ \E p \in Procs : ErrBcast(p)
  \/ \E p \in Procs : BackendOpen(p)
  \/ \E p \in Procs : OutcomeBcast(p)
  \/ \E p \in Procs : Publish(p)
  \/ CloseFile

SpecDispatch == Init /\ [][NextDispatch]_vars

\* ------------------------------------------------------------------ C16
AsyncCall == CallValid /\ Ios.async_interface

\* The compute representative has made the whole dispatch without a failure.
Dispatched ==
  /\ AsyncCall /\ pc[Ios.comproot] # "entry"
  /\ ~hist[Ios.comproot].dfail /\ ~hist[Ios.comproot].nomem

\* C16: every I/O process is handed the length of the filename, the filename
\* with its terminator (length + 1 bytes), the backend type and the mode the
\* compute representative holds.
C16_Fidelity ==
  Dispatched =>
    \A q \in Procs :
      ioproc(Ios, q) =>
        LET d == Delivered(q) IN
        /\ Len(d) = 4
        /\ d[1].data = <<strlen(call.filename)>>
        /\ d[2].count = d[1].data[1] + 1
        /\ d[2].data = call.filename \o <<0>>
        /\ d[3].data = <<call.iotype>>
        /\ d[4].data = <<call.mode>>

\* ------------------------------------------------------------------ C17
\* C17: a process on which an MPI call of the dispatch failed does not go on
\* to the backend open or the outcome broadcast, and returns PIO_EIO.
C17_NotSwallowed ==
  \A p \in Procs :
    (AsyncCall /\ hist[p].dfail) =>
      /\ pc[p] \notin {"open", "ierr_bcast", "mode_bcast"}
      /\ Returned(p) => ret[p] = PIO_EIO

\* ------------------------------------------------------------------ C18
ParamOrder == <<"len", "filename", "iotype", "mode">>

\* C18: only the compute representative sends the operation code, as its
\* first step; the non-I/O processes issue the parameter broadcasts in the
\* order length, filename, type, mode; I/O processes issue nothing.
C18_DispatchOrder ==
  AsyncCall =>
    \A p \in Procs :
      LET s == sent[p]
          params == SelectSeq(s, LAMBDA x : x # "msg")
          msgs == {i \in DOMAIN s : s[i] = "msg"}
      IN /\ ioproc(Ios, p) => s = <<>>
         /\ msgs # {} => (compmaster(Ios, p) /\ msgs = {1})
         /\ (compmaster(Ios, p) /\ s # <<>>) => s[1] = "msg"
         /\ params = SubSeq(ParamOrder, 1, Len(params))
         /\ (pc[p] \notin {"idle", "entry", "aborted"} /\ ~ioproc(Ios, p) /\ ~hist[p].dfail
               /\ ~hist[p].nomem)
              => params = ParamOrder

C18_Witness ==
  /\ AsyncCall
  /\ sent[Ios.comproot] = <<"msg">> \o ParamOrder
  /\ \E p \in Procs : ~ioproc(Ios, p) /\ ~compmaster(Ios, p) /\ sent[p] = ParamOrder
  /\ \A p \in Procs : ioproc(Ios, p) => (pc[p] = "returned" /\ sent[p] = <<>>)

\* ------------------------------------------------------------------ C19
\* p has returned the transport error before the outcome broadcast.
DispatchAborted(p) ==
  Returned(p) /\ ret[p] = PIO_EIO /\ hist[p].tfail /\ ~hist[p].reached

\* C19 as stated: no compute process returns the transport error from the
\* dispatch while another one goes on to the outcome broadcast.
C19_AsStated ==
  AsyncCall =>
    \A p \in Procs, q \in Procs :
      (~ioproc(Ios, p) /\ ~ioproc(Ios, q) /\ DispatchAborted(p)) => ~hist[q].reached

\* C19 amended: when the status broadcast of line 797 itself failed on no
\* process of the context, a compute process that returned the transport error from
\* the dispatch means that no compute process goes on to the outcome
\* broadcast, and that every one that returns returns PIO_EIO.
C19_UniformAbort ==
  AsyncCall =>
    \A p \in Procs, q \in Procs :
      (~ioproc(Ios, p) /\ ~ioproc(Ios, q) /\ DispatchAborted(p)
         /\ (\A r \in Procs : ~hist[r].sfail) /\ ~hist[q].nomem)
      => /\ ~hist[q].reached
         /\ pc[q] \notin {"open", "ierr_bcast", "mode_bcast"}
         /\ Returned(q) => ret[q] = PIO_EIO

C19_Witness ==
  /\ AsyncCall /\ Ios.comproot = 1
  /\ hist[1].dfail
  /\ \A p \in {1, 2} : DispatchAborted(p)
  /\ \A r \in Procs : ~hist[r].sfail

\* ------------------------------------------------------------------ C20
DirectCall == CallValid /\ ~Ios.async_interface

\* p is past the backend open of lines 803-876.
PastOpen(p) == pc[p] \in {"ierr_bcast", "mode_bcast", "cn_bcast", "returned"} /\ ~hist[p].nomem

\* C20 as stated: in direct mode nothing is dispatched and every process
\* makes the backend open call.
C20_AsStated ==
  DirectCall =>
    \A p \in Procs :
      /\ sent[p] = <<>>
      /\ PastOpen(p) => hist[p].opens > 0

\* C20 amended: in direct mode nothing is dispatched and no dispatch status
\* is broadcast; the backend open call is made by the I/O processes of the
\* context only, by all of them for the parallel types and by io_rank 0 alone
\* for the serial types.
C20_DirectMode ==
  DirectCall =>
    \A p \in Procs :
      /\ sent[p] = <<>>
      /\ pc[p] # "err_bcast"
      /\ ~ioproc(Ios, p) => hist[p].opens = 0
      /\ PastOpen(p) =>
           (hist[p].opens > 0 <=> (ioproc(Ios, p) /\ DoIo(call.iotype, io_rank(Ios, p))))

C20_Witness ==
  /\ DirectCall /\ call.iotype = PIO_IOTYPE_NETCDF4P
  /\ \A p \in Procs : Returned(p) /\ ret[p] = PIO_NOERR /\ sent[p] = <<>>
  /\ hist[0].opens = 1 /\ hist[1].opens = 1 /\ hist[2].opens = 0

\* ------------------------------------------------------------------ C21
SerialTypes == {PIO_IOTYPE_NETCDF, PIO_IOTYPE_NETCDF4C}
ParallelTypes == {PIO_IOTYPE_PNETCDF, PIO_IOTYPE_NETCDF4P}

\* C21: when the type asked for is a single-writer type only the I/O process
\* of io_rank 0 calls the backend open, and every other I/O process makes no
\* backend call and holds "no error" until the outcome broadcast; when it is
\* a parallel type every I/O process calls the backend open.
C21_SingleWriter ==
  CallValid =>
    \A p \in Procs :
      /\ (pc[p] \in {"entry", "err_bcast", "open"} \/ ~ioproc(Ios, p)) => hist[p].opens = 0
      /\ (ioproc(Ios, p) /\ hist[p].opened) =>
           IF call.iotype \in SerialTypes
           THEN IF io_rank(Ios, p) = 0
                THEN hist[p].opens >= 1
                ELSE /\ hist[p].opens = 0
                     /\ hist[p].outcome = PIO_NOERR
                     /\ pc[p] = "ierr_bcast" => ierr[p] = PIO_NOERR
           ELSE hist[p].opens >= 1

\* The representative's open failed while the other I/O process, which made
\* no call, holds "no error" before the outcome broadcast.
C21_Witness ==
  /\ CallValid /\ call.iosysid = 1 /\ call.iotype = PIO_IOTYPE_NETCDF4C
  /\ hist[0].opened /\ hist[0].opens = 1 /\ hist[0].outcome = 2
  /\ pc[1] = "ierr_bcast" /\ hist[1].opens = 0 /\ ierr[1] = PIO_NOERR

\* ------------------------------------------------------------------ C22
\* The file of this call, as linked into the registry at a successful return.
Produced(p) ==
  /\ CallValid /\ Returned(p) /\ ret[p] = PIO_NOERR
  /\ file[p].allocated /\ file[p].pio_ncid # NoId

\* C22: at a successful return do_io agrees with the type the file ended up
\* with: set on every process for a parallel type, set on the process of
\* io_rank 0 only for a single-writer type.
C22_DoIoAgrees ==
  \A p \in Procs :
    Produced(p) =>
      (file[p].do_io <=> (file[p].iotype \in ParallelTypes \/ io_rank(Ios, p) = 0))

\* ------------------------------------------------------------------ C25
\* The registry of p holds the file record of this call.
InRegistry(p) ==
  /\ file[p].pio_ncid # NoId
  /\ \E i \in DOMAIN pio_file_list[p] : pio_file_list[p][i].pio_ncid = file[p].pio_ncid

\* C25: when the call has returned, the file record it allocated is linked
\* into the registry or has been released.
C25_LinkedOrReleased ==
  \A p \in Procs :
    (CallValid /\ Returned(p)) => (file[p].allocated => InRegistry(p))

\* ================================================== the region arena
\* The buffer bget hands out: the lowest one not in use.
bget(arena) ==
  CHOOSE n \in 1..(Cardinality(arena) + 1) : n \notin arena /\ \A m \in 1..(n - 1) : m \in arena

\* brel: the buffer goes back to the arena; releasing what is not an allocated
\* buffer is recorded.
brel(st, b) ==
  [st EXCEPT !.arena = @ \ {b},
             !.released = Append(@, b),
             !.badFree = @ \/ b \notin st.arena]

\* What a pointer field read from a released buffer may hold when it no
\* longer holds what was stored: not the address of an allocated buffer.
Wild == -1

\* A buffer as bget returns it, nothing stored in it yet.
Raw == [kind |-> "raw"]

ZeroArray(ndims) == [kind |-> "array", cells |-> [i \in 1..ndims |-> 0]]

\* Lines 399-400 with the pointers of lines 388 and 393: the node returned.
RegionNode(start, count) ==
  [kind |-> "node", loffset |-> 0, start |-> start, count |-> count, next |-> 0]

\* alloc_region, lines 382-406, on an arena.  failAt says which of the three
\* bget calls returns NULL (0: none); intact says whether region->start, read
\* at line 396 from the node released at line 395, still holds the pointer.
alloc_region_on(arena, mem, ndims, failAt, intact) ==
  LET st0 == [arena |-> arena, mem |-> mem, ret |-> 0, obtained |-> {}, released |-> <<>>,
              staleRead |-> FALSE, badFree |-> FALSE]
      r == bget(arena)
      s == bget(arena \cup {r})
      c == bget(arena \cup {r, s})
      raw(bufs) == [b \in arena \cup bufs |-> IF b \in bufs THEN Raw ELSE mem[b]]
      st1 == [st0 EXCEPT !.arena = @ \cup {r}, !.obtained = {r}, !.mem = raw({r})]
      st2 == [st1 EXCEPT !.arena = @ \cup {s}, !.obtained = {r, s}, !.mem = raw({r, s})]
      st3 == [st2 EXCEPT !.arena = @ \cup {c}, !.obtained = {r, s, c}]
  IN CASE failAt = 1 -> st0
       [] failAt = 2 -> brel(st1, r)
       [] failAt = 3 ->
            brel([brel(st2, r) EXCEPT !.staleRead = TRUE], IF intact THEN s ELSE Wild)
       [] OTHER ->
            [st3 EXCEPT !.ret = r,
                        !.mem = [b \in arena \cup {r, s, c} |->
                                   IF b = r THEN RegionNode(s, c)
                                   ELSE IF b \in {s, c} THEN ZeroArray(ndims)
                                   ELSE mem[b]]]

\* free_region_list, lines 456-471: the loop from ptr on.
RECURSIVE free_region_walk(_, _)
free_region_walk(st, ptr) ==
  IF ptr = 0 THEN st
  ELSE IF ptr \notin st.arena THEN [st EXCEPT !.staleRead = TRUE]
  ELSE LET node == st.mem[ptr]
           a == IF node.start # 0 THEN brel(st, node.start) ELSE st
           b == IF node.count # 0 THEN brel(a, node.count) ELSE a
       IN free_region_walk(brel(b, ptr), node.next)

free_region_list_on(arena, mem, top) ==
  free_region_walk([arena |-> arena, mem |-> mem, ret |-> 0, obtained |-> {},
                    released |-> <<>>, staleRead |-> FALSE, badFree |-> FALSE], top)

\* The nodes of the list from ptr on.
RECURSIVE ListNodes(_, _)
ListNodes(mem, ptr) ==
  IF ptr = 0 \/ ptr \notin DOMAIN mem THEN <<>>
  ELSE <<ptr>> \o ListNodes(mem, mem[ptr].next)

\* A call of alloc_region.
RgAlloc ==
  /\ rgRet = 0
  /\ Len(ListNodes(rgMem, rgTop)) < MaxRegions
  /\ \E ndims \in 0..MaxNdims, failAt \in 0..3, intact \in BOOLEAN :
       /\ failAt # 3 => intact
       /\ failAt # 0 => rgFaults < MaxFaults
       /\ rgFaults' = IF failAt # 0 THEN rgFaults + 1 ELSE rgFaults
       /\ LET st == alloc_region_on(rgArena, rgMem, ndims, failAt, intact) IN
          /\ rgArena' = st.arena
          /\ rgMem' = [b \in st.arena |-> st.mem[b]]
          /\ rgRet' = st.ret
          /\ rgOp' = [op |-> "alloc", ndims |-> ndims, ret |-> st.ret, before |-> rgArena,
                      obtained |-> st.obtained, released |-> st.released,
                      staleRead |-> st.staleRead, badFree |-> st.badFree]
  /\ UNCHANGED rgTop
  /\ UNCHANGED <<error_handler, openVars, faults, cnVars, fdVars, mapVars>>

\* The caller stores the region: as the head of its list (malloc_iodesc, line
\* 446) or behind the last node.
RgLink ==
  /\ rgRet # 0
  /\ LET nodes == ListNodes(rgMem, rgTop) IN
     IF nodes = <<>>
     THEN /\ rgTop' = rgRet
          /\ UNCHANGED rgMem
     ELSE /\ rgMem' = [rgMem EXCEPT ![nodes[Len(nodes)]].next = rgRet]
          /\ UNCHANGED rgTop
  /\ rgRet' = 0
  /\ UNCHANGED <<rgArena, rgOp, rgFaults>>
  /\ UNCHANGED <<error_handler, openVars, faults, cnVars, fdVars, mapVars>>

\* A call of free_region_list on the caller's list, which the caller then
\* forgets (PIOc_freedecomp, line 516).
RgFree ==
  /\ rgRet = 0
  /\ rgOp.op # "free"
  /\ LET st == free_region_list_on(rgArena, rgMem, rgTop) IN
     /\ rgArena' = st.arena
     /\ rgMem' = [b \in st.arena |-> st.mem[b]]
     /\ rgOp' = [op |-> "free", ndims |-> 0, ret |-> 0, before |-> rgArena,
                 obtained |-> {}, released |-> st.released,
                 staleRead |-> st.staleRead, badFree |-> st.badFree]
  /\ rgTop' = 0
  /\ UNCHANGED <<rgRet, rgFaults>>
  /\ UNCHANGED <<error_handler, openVars, faults, cnVars, fdVars, mapVars>>

NextRegion == RgAlloc \/ RgLink \/ RgFree

SpecRegion == Init /\ [][NextRegion]_vars

\* ------------------------------------------------------------------ C23
\* Every buffer of the set is released by the call, and none twice.
ReleasedOnce(bufs) ==
  /\ Range(rgOp.released) = bufs
  /\ Len(rgOp.released) = Cardinality(bufs)

\* C23: alloc_region returns a region with zeroed coordinates, offset zero
\* and a null forward link, or fails having released exactly once every
\* buffer it obtained, without reading a released buffer; free_region_list
\* releases every node and coordinate array of the list exactly once, nothing
\* on a null head, and leaves the arena empty.
C23_RegionDiscipline ==
  /\ (rgOp.op = "alloc" /\ rgOp.ret # 0) =>
       LET node == rgMem[rgOp.ret] IN
       /\ node.loffset = 0 /\ node.next = 0
       /\ \A a \in {node.start, node.count} :
            /\ a \in rgArena
            /\ rgMem[a].cells = [i \in 1..rgOp.ndims |-> 0]
       /\ rgOp.released = <<>>
  /\ (rgOp.op = "alloc" /\ rgOp.ret = 0) =>
       /\ ReleasedOnce(rgOp.obtained)
       /\ ~rgOp.staleRead /\ ~rgOp.badFree
       /\ rgArena = rgOp.before
  /\ rgOp.op = "free" =>
       /\ ReleasedOnce(rgOp.before)
       /\ ~rgOp.staleRead /\ ~rgOp.badFree
       /\ rgArena = {}

\* ------------------------------------------------------------------ C24
\* Every process that is in a map call keeps running: the steps of rank 0
\* and the steps of each other rank are taken when they stay possible.
MapFairness ==
  /\ WF_vars(WRoot \/ WRootSend \/ WRootRecv \/ RRoot \/ RRootRecord)
  /\ \A r \in Procs :
       WF_vars(WGather(r) \/ WReply(r) \/ RBcast(r) \/ RRecvLen(r) \/ RRecvMap(r))

SpecMapLive == Init /\ [][NextMap]_vars /\ MapFairness

MapInCall == mapCall.op # "none"

\* Every rank of the group has returned, or the run was ended by piodie.
MapDone == \A p \in MapRanks : mapProc[p].pc \in {"returned", "aborted"}

MapAllReturned == MapInCall /\ \A p \in MapRanks : mapProc[p].pc = "returned"

\* C24: a map call that was started ends on every rank of the group (each
\* returns, or the run is ended), and when all have returned no message is
\* left that was sent and not received.
C24_DeadlockFree ==
  /\ [](MapAllReturned => mapNet = {})
  /\ MapInCall ~> MapDone

====
